---- MODULE Spec2Model ----
(***************************************************************************)
(* Model of opendeep/optimization/rmsprop.py (class RMSProp) and of the    *)
(* MIDI dataset contract exercised by opendeep/data/tests/test_midi.py.    *)
(*                                                                         *)
(* Numbers are exact rationals [n, d] in lowest terms; the only rounded    *)
(* operation is the square root, which is truncated to a multiple of       *)
(* 1 / SqrtPrecision.  Tensors are sequences of rationals; every Theano    *)
(* operator used by the source is elementwise, Python scalars broadcast.   *)
(***************************************************************************)
EXTENDS Integers, Sequences, FiniteSets, TLC

(***************************************************************************)
(* Bounds of the model.                                                    *)
(***************************************************************************)
MaxGrads == 2        \* largest gradient dictionary passed to get_updates
MaxCalls == 2        \* get_updates calls on one instance
MaxAccs == 3         \* accumulators sharedX allocates over all calls
MaxApplies == 2      \* runs of the compiled training step
SqrtPrecision == 4   \* T.sqrt is exact up to 1 / SqrtPrecision
MaxSeqs == 2         \* MIDI sequences in one subset

(***************************************************************************)
(* Exact rational arithmetic.                                              *)
(***************************************************************************)
Abs(x) == IF x < 0 THEN -x ELSE x

RECURSIVE GCD(_, _)
GCD(a, b) == IF b = 0 THEN a ELSE GCD(b, a % b)

\* the rational n / d (d # 0) in lowest terms with a positive denominator
Q(n, d) ==
    LET g == GCD(Abs(n), Abs(d))
        s == IF d < 0 THEN -1 ELSE 1
    IN  [n |-> (s * n) \div g, d |-> (s * d) \div g]

Zero == Q(0, 1)
One == Q(1, 1)
AddQ(x, y) == Q(x.n * y.d + y.n * x.d, x.d * y.d)
SubQ(x, y) == Q(x.n * y.d - y.n * x.d, x.d * y.d)
MulQ(x, y) == Q(x.n * y.n, x.d * y.d)
DivQ(x, y) == Q(x.n * y.d, x.d * y.n)
NegQ(x) == Q(-x.n, x.d)
AbsQ(x) == Q(Abs(x.n), x.d)
LeQ(x, y) == x.n * y.d <= y.n * x.d
LtQ(x, y) == x.n * y.d < y.n * x.d

\* largest k with k * k <= v
ISqrt(v) == CHOOSE k \in 0..v : k * k <= v /\ (k + 1) * (k + 1) > v

(***************************************************************************)
(* Theano operators (elementwise, on one element).                         *)
(***************************************************************************)
T_sqr(x) == MulQ(x, x)

T_sqrt(x) == Q(ISqrt((x.n * SqrtPrecision * SqrtPrecision) \div x.d), SqrtPrecision)

T_maximum(x, y) == IF LeQ(x, y) THEN y ELSE x

(***************************************************************************)
(* The model parameters: shared variables 1..Len(ParamNames) of the heap.  *)
(* A name is <<s>> for the string s and << >> for None.                    *)
(***************************************************************************)
None == << >>

ParamNames == << <<"W">>, <<"b">>, <<"W">>, None >>

ParamValues == << <<Q(1, 1), Q(-1, 2)>>, <<Q(0, 1)>>, <<Q(2, 1)>>, <<Q(1, 2)>> >>

Params == 1..Len(ParamNames)

\* resolved constructor arguments (explicit argument, config or _defaults)
MaxScalings == {Q(-1, 1), Q(0, 1), Q(1, 2), Q(2, 1)}

Decays == {Q(3, 4)}

LearningRates == {Q(1, 2)}

\* lr_scalers: parameter 1 has a scaler, the others take the default 1.
LrScalers == {<<Q(2, 1)>>}

\* the minibatches the gradients are evaluated on
Batches == {1, 2}

\* value of the gradient expression grads[param] on minibatch b
Gradient(p, b) ==
    [i \in 1..Len(ParamValues[p]) |-> Q(((2 * p + 3 * b + i) % 5) - 2, 1)]

VARIABLES
    status,      \* "new", "ready" (constructed) or "AssertionError"
    self,        \* the attributes of the RMSProp instance set so far
    shared,      \* heap of shared variables: [name, value]
    grads,       \* argument of the latest get_updates call (parameters in iteration order)
    result,      \* outcome of the latest get_updates call: "none", "ok", "ValueError"
    updates,     \* the OrderedDict the latest get_updates call returned (empty if it raised)
    warnings,    \* parameter names log.warning was called with, in order
    calls,       \* number of get_updates calls
    applies,     \* number of runs of the compiled training step
    batch,       \* minibatch of the latest run of the training step
    dataset      \* the MIDI dataset under test

vars == <<status, self, shared, grads, result, updates, warnings, calls, applies, batch, dataset>>

optVars == <<status, self, shared, grads, result, updates, warnings, calls, applies, batch>>

(***************************************************************************)
(* Symbolic expressions of the update graph.                               *)
(***************************************************************************)
Var(id) == [op |-> "var", id |-> id]
Const(q) == [op |-> "const", q |-> q]
Grad(p) == [op |-> "grad", p |-> p]
Add(l, r) == [op |-> "add", l |-> l, r |-> r]
Mul(l, r) == [op |-> "mul", l |-> l, r |-> r]
Div(l, r) == [op |-> "div", l |-> l, r |-> r]
Sqr(a) == [op |-> "sqr", a |-> a]
Sqrt(a) == [op |-> "sqrt", a |-> a]
Maximum(l, r) == [op |-> "maximum", l |-> l, r |-> r]

\* element i of expression e, with the shared variables sh and minibatch b
RECURSIVE EvalAt(_, _, _, _)
EvalAt(e, sh, b, i) ==
    CASE e.op = "var" -> sh[e.id].value[i]
      [] e.op = "const" -> e.q
      [] e.op = "grad" -> Gradient(e.p, b)[i]
      [] e.op = "add" -> AddQ(EvalAt(e.l, sh, b, i), EvalAt(e.r, sh, b, i))
      [] e.op = "mul" -> MulQ(EvalAt(e.l, sh, b, i), EvalAt(e.r, sh, b, i))
      [] e.op = "div" -> DivQ(EvalAt(e.l, sh, b, i), EvalAt(e.r, sh, b, i))
      [] e.op = "sqr" -> T_sqr(EvalAt(e.a, sh, b, i))
      [] e.op = "sqrt" -> T_sqrt(EvalAt(e.a, sh, b, i))
      [] e.op = "maximum" -> T_maximum(EvalAt(e.l, sh, b, i), EvalAt(e.r, sh, b, i))

\* d[k] = v on a dictionary d
Put(d, k, v) == [x \in DOMAIN d \cup {k} |-> IF x = k THEN v ELSE d[x]]

EmptyDict == << >>

(***************************************************************************)
(* RMSProp.__init__                                                        *)
(***************************************************************************)
\* assert self.max_scaling > 0.
\* (faulty variant: accepts max_scaling = 0)
AssertMaxScalingNonNegative(max_scaling) == LeQ(Zero, max_scaling)

AssertMaxScaling(max_scaling) == LtQ(Zero, max_scaling)

\* self.epsilon = 1. / self.max_scaling
\* (faulty variant: epsilon not inverted)
EpsilonIsMaxScaling(max_scaling) == max_scaling

Epsilon(max_scaling) == DivQ(One, max_scaling)

Construct(max_scaling, decay, learning_rate, lr_scalers) ==
    /\ status = "new"
    /\ LET base == [max_scaling |-> max_scaling, decay |-> decay,
                    learning_rate |-> learning_rate, lr_scalers |-> lr_scalers]
       IN  IF AssertMaxScaling(max_scaling)
           THEN /\ self' = [max_scaling |-> max_scaling, decay |-> decay,
                            learning_rate |-> learning_rate, lr_scalers |-> lr_scalers,
                            epsilon |-> Epsilon(max_scaling),
                            mean_square_grads |-> EmptyDict]
                /\ status' = "ready"
           ELSE /\ self' = base
                /\ status' = "AssertionError"
    /\ UNCHANGED <<shared, grads, result, updates, warnings, calls, applies, batch, dataset>>

(***************************************************************************)
(* RMSProp.get_updates                                                     *)
(***************************************************************************)
\* sharedX(value): a new, unnamed shared variable
sharedX(value) == [name |-> None, value |-> value]

\* self.lr_scalers.get(param, 1.) * self.learning_rate
ScaledLr(slf, param) ==
    MulQ(IF param \in DOMAIN slf.lr_scalers THEN slf.lr_scalers[param] ELSE One,
         slf.learning_rate)

\* new_mean_squared_grad
\* (faulty variant: the two weights swapped)
NewMeanSquaredGradSwapped(slf, acc, param) ==
    Add(Mul(Const(SubQ(One, slf.decay)), Var(acc)),
        Mul(Const(slf.decay), Sqr(Grad(param))))

NewMeanSquaredGrad(slf, acc, param) ==
    Add(Mul(Const(slf.decay), Var(acc)),
        Mul(Const(SubQ(One, slf.decay)), Sqr(Grad(param))))

\* rms_grad_t
RmsGradT(slf, acc, param) ==
    Maximum(Sqrt(NewMeanSquaredGrad(slf, acc, param)), Const(slf.epsilon))

\* delta_x_t
DeltaXT(slf, acc, param) ==
    Div(Mul(Const(NegQ(ScaledLr(slf, param))), Grad(param)), RmsGradT(slf, acc, param))

\* updates[param]
\* (faulty variant: the step alone, without the parameter)
ParamUpdateStepOnly(slf, acc, param) == DeltaXT(slf, acc, param)

ParamUpdate(slf, acc, param) == Add(Var(param), DeltaXT(slf, acc, param))

\* self.mean_square_grads[param.name] = mean_square_grad
\* (faulty variant: keeps an accumulator already registered)
RegisterOnce(msg, nm, acc) == IF nm \in DOMAIN msg THEN msg ELSE Put(msg, nm, acc)

Register(msg, nm, acc) == Put(msg, nm, acc)

\* one iteration of the loop over grads; st is the state of the running call
ProcessParam(st, param) ==
    LET v == st.shared[param].value
        sh1 == Append(st.shared, sharedX([i \in 1..Len(v) |-> MulQ(v[i], Zero)]))
        acc == Len(sh1)
        pname == st.shared[param].name
    IN  IF pname = None
        THEN [st EXCEPT !.shared = sh1, !.raised = "ValueError"]
        ELSE LET nm == pname[1]
                 slf == st.self
             IN  [shared |-> [sh1 EXCEPT ![acc].name = <<"mean_square_grad_" \o nm>>],
                  self |-> [slf EXCEPT !.mean_square_grads = Register(@, nm, acc)],
                  warnings |-> IF nm \in DOMAIN slf.mean_square_grads
                               THEN Append(st.warnings, nm) ELSE st.warnings,
                  updates |-> Put(Put(st.updates, acc, NewMeanSquaredGrad(slf, acc, param)),
                                  param, ParamUpdate(slf, acc, param)),
                  raised |-> st.raised]

\* the loop over gs[k..], stopping at the first exception
\* (faulty variant: goes on after the exception)
RECURSIVE LoopPastException(_, _, _)
LoopPastException(st, gs, k) ==
    IF k > Len(gs) THEN st
    ELSE LoopPastException(ProcessParam(st, gs[k]), gs, k + 1)

RECURSIVE Loop(_, _, _)
Loop(st, gs, k) ==
    IF k > Len(gs) \/ st.raised # "none" THEN st
    ELSE Loop(ProcessParam(st, gs[k]), gs, k + 1)

\* the gradient dictionaries: parameters in the order the dictionary iterates them
GradDicts ==
    {s \in UNION {[1..n -> Params] : n \in 0..MaxGrads} :
        \A i, j \in DOMAIN s : i # j => s[i] # s[j]}

get_updates(gs) ==
    /\ status = "ready"
    /\ calls < MaxCalls
    /\ Len(shared) + Len(gs) <= Len(ParamNames) + MaxAccs
    /\ LET st == Loop([shared |-> shared, self |-> self, warnings |-> warnings,
                       updates |-> EmptyDict, raised |-> "none"], gs, 1)
       IN  /\ shared' = st.shared
           /\ self' = st.self
           /\ warnings' = st.warnings
           /\ result' = IF st.raised = "none" THEN "ok" ELSE st.raised
           /\ updates' = IF st.raised = "none" THEN st.updates ELSE EmptyDict
    /\ grads' = gs
    /\ calls' = calls + 1
    /\ UNCHANGED <<status, applies, batch, dataset>>

(***************************************************************************)
(* One run of the training step compiled from the returned updates: every  *)
(* update expression is evaluated on the old values, then all are stored.  *)
(***************************************************************************)
ApplyUpdates(b) ==
    /\ result = "ok"
    /\ applies < MaxApplies
    /\ shared' = [id \in DOMAIN shared |->
                    IF id \in DOMAIN updates
                    THEN [shared[id] EXCEPT !.value =
                            [i \in 1..Len(@) |-> EvalAt(updates[id], shared, b, i)]]
                    ELSE shared[id]]
    /\ batch' = b
    /\ applies' = applies + 1
    /\ UNCHANGED <<status, self, grads, result, updates, warnings, calls, dataset>>

(***************************************************************************)
(* MIDI datasets (MuseData, Nottingham): every subset is a list of         *)
(* sequences, concatenated into one tensor; the shapes of the sequences    *)
(* are kept as metadata.                                                   *)
(***************************************************************************)
MidiClasses == {"MuseData", "Nottingham"}

\* numbers of rows (time steps) of a MIDI sequence
SeqLens == {1, 2}

Subsets == {"TRAIN", "VALID", "TEST"}

\* a sequence of the given number of rows; a row is <<file, time step>>
PianoRoll(j, len) == [i \in 1..len |-> <<j, i>>]

\* the lists of sequences one subset can hold
SequenceLists ==
    UNION {{[j \in 1..n |-> PianoRoll(j, lens[j])] : lens \in [1..n -> SeqLens]} :
           n \in 0..MaxSeqs}

\* shape of a two-dimensional array
Shape(a) == <<Len(a), IF Len(a) = 0 THEN 0 ELSE Len(a[1])>>

\* numpy.concatenate of a list of arrays along the first axis
\* (faulty variant: keeps the first array only)
ConcatenateFirstOnly(seqs) == IF seqs = << >> THEN << >> ELSE Head(seqs)

RECURSIVE Concatenate(_)
Concatenate(seqs) ==
    IF seqs = << >> THEN << >> ELSE Head(seqs) \o Concatenate(Tail(seqs))

\* the dataset object built from the files of the three subsets
MidiDataset(cls, files) ==
    [cls |-> cls,
     tensor |-> [s \in Subsets |-> Concatenate(files[s])],
     shapes |-> [s \in Subsets |-> [j \in 1..Len(files[s]) |-> Shape(files[s][j])]]]

getDataShape(ds, subset) == ds.shapes[subset]

\* setUp: construct a dataset
LoadMidi(cls, files) ==
    /\ dataset.cls = "none"
    /\ dataset' = MidiDataset(cls, files)
    /\ UNCHANGED optVars

\* tearDown: delete it
tearDown ==
    /\ dataset.cls # "none"
    /\ dataset' = [cls |-> "none"]
    /\ UNCHANGED optVars

(***************************************************************************)
(* Specifications.                                                         *)
(***************************************************************************)
InitOpt ==
    /\ status = "new"
    /\ self = << >>
    /\ shared = [p \in Params |-> [name |-> ParamNames[p], value |-> ParamValues[p]]]
    /\ grads = << >>
    /\ result = "none"
    /\ updates = EmptyDict
    /\ warnings = << >>
    /\ calls = 0
    /\ applies = 0
    /\ batch = 0

Init ==
    /\ InitOpt
    /\ dataset = [cls |-> "none"]

Next ==
    \/ \E ms \in MaxScalings, dc \in Decays, lr \in LearningRates, sc \in LrScalers :
          Construct(ms, dc, lr, sc)
    \/ \E gs \in GradDicts : get_updates(gs)
    \/ \E b \in Batches : ApplyUpdates(b)

Spec == Init /\ [][Next]_vars

NextMidi ==
    \/ \E cls \in MidiClasses, files \in [Subsets -> SequenceLists] : LoadMidi(cls, files)
    \/ tearDown

SpecMidi == Init /\ [][NextMidi]_vars

(***************************************************************************)
(* Auxiliary definitions of the properties.                                *)
(***************************************************************************)
Named(p) == shared[p].name # None

NameOf(p) == shared[p].name[1]

AllNamed(gs) == \A k \in DOMAIN gs : Named(gs[k])

\* number of parameters of gs iterated before the first unnamed one
Processed(gs) ==
    IF AllNamed(gs) THEN Len(gs)
    ELSE (CHOOSE k \in DOMAIN gs : ~Named(gs[k]) /\ \A j \in 1..(k - 1) : Named(gs[j])) - 1

ProcessedNames(gs) == {NameOf(gs[j]) : j \in 1..Processed(gs)}

\* last position among the processed parameters of gs that carries name nm
LastWithName(gs, nm) ==
    CHOOSE j \in 1..Processed(gs) :
        /\ NameOf(gs[j]) = nm
        /\ \A h \in (j + 1)..Processed(gs) : NameOf(gs[h]) # nm

\* the names a call with gs must warn about, in order
ExpectedWarnings(gs) ==
    LET warn(j) == \/ NameOf(gs[j]) \in DOMAIN self.mean_square_grads
                   \/ \E h \in 1..(j - 1) : NameOf(gs[h]) = NameOf(gs[j])
        idx == SelectSeq([j \in 1..Processed(gs) |-> j], warn)
    IN  [x \in 1..Len(idx) |-> NameOf(gs[idx[x]])]

CallStep == calls' = calls + 1

ApplyStep == applies' = applies + 1

\* the accumulator the latest successful call created for its k-th parameter
AccOf(k) == Len(shared) - Len(grads) + k

\* the accumulated squared gradient of element i of that accumulator on minibatch b
Accumulated(k, b, i) ==
    AddQ(MulQ(self.decay, shared[AccOf(k)].value[i]),
         MulQ(SubQ(One, self.decay),
              MulQ(Gradient(grads[k], b)[i], Gradient(grads[k], b)[i])))

\* the value the gradient is divided by
Rms(k, b, i) ==
    LET r == T_sqrt(Accumulated(k, b, i))
    IN  IF LtQ(r, self.epsilon) THEN self.epsilon ELSE r

Scale(p) ==
    IF p \in DOMAIN self.lr_scalers
    THEN MulQ(self.lr_scalers[p], self.learning_rate) ELSE self.learning_rate

RECURSIVE SumRows(_)
SumRows(shapes) == IF shapes = << >> THEN 0 ELSE Head(shapes)[1] + SumRows(Tail(shapes))

(***************************************************************************)
(* C1: get_updates on a dictionary of named parameters returns updates     *)
(* that have every parameter of grads as a key, and running them replaces  *)
(* each parameter by the parameter plus its step, the step being           *)
(* - scaled_lr * gradient / rms_grad_t.                                    *)
(***************************************************************************)
C1_UpdatesGiveParamPlusStep ==
    [][/\ (CallStep /\ AllNamed(grads')) =>
            /\ result' = "ok"
            /\ \A k \in DOMAIN grads' : grads'[k] \in DOMAIN updates'
       /\ ApplyStep =>
            \A k \in DOMAIN grads : \A i \in DOMAIN shared[grads[k]].value :
                LET old == shared[grads[k]].value[i]
                    new == shared'[grads[k]].value[i]
                IN  MulQ(SubQ(new, old), Rms(k, batch', i)) =
                        NegQ(MulQ(Scale(grads[k]), Gradient(grads[k], batch')[i]))]_vars

C1_Witness ==
    /\ result = "ok"
    /\ applies >= 1
    /\ Len(grads) >= 2
    /\ \E k \in DOMAIN grads : shared[grads[k]].value # ParamValues[grads[k]]

C3_PerParameterRunningAverage ==
    [][/\ CallStep =>
            \A j \in 1..(Len(shared') - Len(shared)) :
                /\ Len(shared'[Len(shared) + j].value) = Len(shared[grads'[j]].value)
                /\ \A i \in DOMAIN shared'[Len(shared) + j].value :
                       shared'[Len(shared) + j].value[i] = Zero
       /\ ApplyStep =>
            /\ \A k \in DOMAIN grads : \A i \in DOMAIN shared[AccOf(k)].value :
                   shared'[AccOf(k)].value[i] = Accumulated(k, batch', i)
            /\ \A id \in DOMAIN shared :
                   id \notin DOMAIN updates => shared'[id] = shared[id]
            /\ DOMAIN updates =
                   {grads[k] : k \in DOMAIN grads} \cup {AccOf(k) : k \in DOMAIN grads}]_vars

\* two runs, after which two accumulators of one call hold different non-zero values
C3_Witness ==
    /\ applies = 2
    /\ Len(grads) >= 2
    /\ shared[AccOf(1)].value[1] # Zero
    /\ shared[AccOf(2)].value[1] # Zero
    /\ shared[AccOf(1)].value[1] # shared[AccOf(2)].value[1]

(***************************************************************************)
(* C4: construction fails with the assertion exactly when max_scaling is   *)
(* not > 0, and then neither epsilon nor mean_square_grads is set; a       *)
(* constructed instance has epsilon * max_scaling = 1, epsilon > 0, and    *)
(* its registry is empty until get_updates is called.                      *)
(***************************************************************************)
C4_ConstructionRequiresPositiveMaxScaling ==
    /\ status = "AssertionError" =>
          /\ LeQ(self.max_scaling, Zero)
          /\ "epsilon" \notin DOMAIN self
          /\ "mean_square_grads" \notin DOMAIN self
    /\ status = "ready" =>
          /\ LtQ(Zero, self.max_scaling)
          /\ MulQ(self.epsilon, self.max_scaling) = One
          /\ LtQ(Zero, self.epsilon)
          /\ calls = 0 => self.mean_square_grads = EmptyDict

C4_Witness ==
    /\ status = "AssertionError"
    /\ self.max_scaling = Zero

(***************************************************************************)
(* C5: a call that reaches an unnamed parameter raises ValueError and      *)
(* returns no updates; it stops there, registers nothing for the unnamed   *)
(* parameter, and the entries of the named parameters before it are the    *)
(* accumulators this call created.                                         *)
(***************************************************************************)
C5_UnnamedParameterRaises ==
    [][(CallStep /\ ~AllNamed(grads')) =>
        LET u == Processed(grads') + 1
        IN  /\ result' = "ValueError"
            /\ updates' = EmptyDict
            /\ Len(shared') = Len(shared) + u
            /\ shared'[Len(shared) + u].name = None
            /\ DOMAIN self'.mean_square_grads =
                   DOMAIN self.mean_square_grads \cup ProcessedNames(grads')
            /\ \A nm \in DOMAIN self'.mean_square_grads :
                   self'.mean_square_grads[nm] # Len(shared) + u
            /\ \A j \in 1..(u - 1) :
                   self'.mean_square_grads[NameOf(grads'[j])] \in
                       (Len(shared) + 1)..(Len(shared) + u - 1)]_vars

C5_Witness ==
    /\ result = "ValueError"
    /\ calls = 1
    /\ Len(grads) = 2
    /\ Named(grads[1])
    /\ ~Named(grads[2])
    /\ DOMAIN self.mean_square_grads = {NameOf(grads[1])}

(***************************************************************************)
(* C6: after a call, mean_square_grads has one entry per name processed so *)
(* far; the entry of a name this call processed is the zero accumulator    *)
(* named 'mean_square_grad_' + name created by its latest processing, the  *)
(* other entries are untouched; a warning is logged exactly for a name     *)
(* already registered; the call fails only on an unnamed parameter; and a  *)
(* replaced accumulator is no longer an entry.                             *)
(***************************************************************************)
C6_RegistryHoldsLatestAccumulator ==
    [][CallStep =>
        LET msg == self.mean_square_grads
            msg2 == self'.mean_square_grads
            gs == grads'
        IN  /\ DOMAIN msg2 = DOMAIN msg \cup ProcessedNames(gs)
            /\ \A nm \in ProcessedNames(gs) :
                  LET acc == Len(shared) + LastWithName(gs, nm)
                  IN  /\ msg2[nm] = acc
                      /\ shared'[acc].name = <<"mean_square_grad_" \o nm>>
                      /\ \A i \in DOMAIN shared'[acc].value : shared'[acc].value[i] = Zero
                      /\ nm \in DOMAIN msg => \A m \in DOMAIN msg2 : msg2[m] # msg[nm]
            /\ \A nm \in DOMAIN msg \ ProcessedNames(gs) : msg2[nm] = msg[nm]
            /\ warnings' = warnings \o ExpectedWarnings(gs)
            /\ (result' = "ok") = AllNamed(gs)]_vars

\* a second call that re-registered a name and logged the warning
C6_Witness ==
    /\ calls = 2
    /\ result = "ok"
    /\ Len(warnings) >= 1
    /\ \E nm \in DOMAIN self.mean_square_grads :
          self.mean_square_grads[nm] > Len(shared) - Len(grads)

====
